---------------------------- MODULE Spec2Model ----------------------------
(***************************************************************************)
(* Model of wowframeadj (src/main.py): a layout-local.txt file is parsed   *)
(* into a version header and a list of frames (one dict per block of 7     *)
(* non-blank lines), overrides given as "key=value" tokens are validated   *)
(* and merged into the first frame of the given name, and the frames are   *)
(* serialized back into the file.                                          *)
(*                                                                         *)
(* Text is modelled by TLA+ strings, a character by a string of length 1.  *)
(* A Python dict is a function from its keys (only sorted(), == and        *)
(* keyed access are applied to the dicts, none of which depends on the     *)
(* insertion order).                                                       *)
(***************************************************************************)
EXTENDS Integers, Sequences, FiniteSets, TLC

(***************************************************************************)
(* str helpers of Python used by the program                               *)
(***************************************************************************)

\* the characters str.strip() removes (the ASCII ones)
Whitespace == {" ", "\t", "\n", "\r"}

CharAt(s, i) == SubSeq(s, i, i)

RECURSIVE lstrip(_)
lstrip(s) ==
    IF s # "" /\ CharAt(s, 1) \in Whitespace THEN lstrip(SubSeq(s, 2, Len(s))) ELSE s

RECURSIVE rstrip(_)
rstrip(s) ==
    IF s # "" /\ CharAt(s, Len(s)) \in Whitespace
    THEN rstrip(SubSeq(s, 1, Len(s) - 1)) ELSE s

\* str.strip()
strip(s) == rstrip(lstrip(s))

\* index of the first occurrence of character c in s at or after i, 0 if none
RECURSIVE FindFrom(_, _, _)
FindFrom(s, c, i) ==
    IF i > Len(s) THEN 0
    ELSE IF CharAt(s, i) = c THEN i ELSE FindFrom(s, c, i + 1)

\* c in s
Contains(s, c) == FindFrom(s, c, 1) # 0

\* s.split(c, 1) for an s that contains c
SplitFirst(s, c) ==
    LET i == FindFrom(s, c, 1)
    IN  <<SubSeq(s, 1, i - 1), SubSeq(s, i + 1, Len(s))>>

\* the lines a text file yields when iterated (the line ends dropped)
RECURSIVE SplitLines(_)
SplitLines(text) ==
    LET i == FindFrom(text, "\n", 1)
    IN  IF i = 0 THEN (IF text = "" THEN <<>> ELSE <<text>>)
        ELSE <<SubSeq(text, 1, i - 1)>> \o SplitLines(SubSeq(text, i + 1, Len(text)))

\* sep.join(parts)
RECURSIVE Join(_, _)
Join(parts, sep) ==
    IF parts = <<>> THEN ""
    ELSE IF Len(parts) = 1 THEN parts[1]
    ELSE parts[1] \o sep \o Join(Tail(parts), sep)

\* the characters of keys, in code point order
CodeOrder == " 0123456789ABCDEFGHIJKLMNOPQRSTUVWXYZ_abcdefghijklmnopqrstuvwxyz"

\* the place of c in the code point order (of the characters of CodeOrder)
Rank(c) == FindFrom(CodeOrder, c, 1)

UpperCase == "ABCDEFGHIJKLMNOPQRSTUVWXYZ"
LowerCase == "abcdefghijklmnopqrstuvwxyz"

\* the lower case of each upper case letter
LowerOf == [c \in {CharAt(UpperCase, i) : i \in 1..Len(UpperCase)} |->
               CharAt(LowerCase, FindFrom(UpperCase, c, 1))]

\* str.lower() on ASCII text
RECURSIVE lower(_)
lower(s) ==
    IF s = "" THEN ""
    ELSE LET c == CharAt(s, 1)
         IN  (IF c \in DOMAIN LowerOf THEN LowerOf[c] ELSE c) \o lower(SubSeq(s, 2, Len(s)))

\* a < b for str: lexicographic by code point
RECURSIVE StrLess(_, _)
StrLess(a, b) ==
    IF b = "" THEN FALSE
    ELSE IF a = "" THEN TRUE
    ELSE IF CharAt(a, 1) = CharAt(b, 1)
         THEN StrLess(SubSeq(a, 2, Len(a)), SubSeq(b, 2, Len(b)))
         ELSE Rank(CharAt(a, 1)) < Rank(CharAt(b, 1))

\* sorted(S) for a set of str
RECURSIVE sorted(_)
sorted(S) ==
    IF S = {} THEN <<>>
    ELSE LET m == CHOOSE x \in S : \A y \in S \ {x} : StrLess(x, y)
         IN  <<m>> \o sorted(S \ {m})

(***************************************************************************)
(* Values: what auto_cast returns, an int, a float or a str.  A float is   *)
(* the decimal num / 10^exp with exp minimal; negzero marks -0.0.          *)
(***************************************************************************)

Integer(n) == [t |-> "Integer", num |-> n, exp |-> 0, negzero |-> FALSE, text |-> ""]
Real(n, e, nz) == [t |-> "Real", num |-> n, exp |-> e, negzero |-> nz, text |-> ""]
Text(s) == [t |-> "Text", num |-> 0, exp |-> 0, negzero |-> FALSE, text |-> s]

RECURSIVE Pow10(_)
Pow10(k) == IF k = 0 THEN 1 ELSE 10 * Pow10(k - 1)

Digits == "0123456789"

RECURSIVE IsDigits(_)
IsDigits(s) ==
    s # "" /\ Contains(Digits, CharAt(s, 1))
           /\ (Len(s) = 1 \/ IsDigits(SubSeq(s, 2, Len(s))))

\* the number a string of decimal digits denotes ("" denotes 0)
RECURSIVE DigitsVal(_)
DigitsVal(s) ==
    IF s = "" THEN 0
    ELSE 10 * DigitsVal(SubSeq(s, 1, Len(s) - 1))
         + (FindFrom(Digits, CharAt(s, Len(s)), 1) - 1)

HasSign(s) == s # "" /\ CharAt(s, 1) \in {"+", "-"}
Unsigned(s) == IF HasSign(s) THEN SubSeq(s, 2, Len(s)) ELSE s
Negative(s) == s # "" /\ CharAt(s, 1) = "-"

\* int(s) succeeds: optional sign and decimal digits, whitespace around ignored
IsIntLiteral(s) == IsDigits(Unsigned(strip(s)))

IntOf(s) ==
    LET v == DigitsVal(Unsigned(strip(s)))
    IN  IF Negative(strip(s)) THEN 0 - v ELSE v

\* float(s) succeeds, for the fixed-point literals: optional sign, digits with
\* one "." and a digit on at least one side of it (or digits alone).  The
\* other literals int() and float() accept (exponents, inf, nan, "_" between
\* digits) occur in none of the inputs below.
IsFloatLiteral(s) ==
    LET u == Unsigned(strip(s))
    IN  IF Contains(u, ".")
        THEN LET p == SplitFirst(u, ".")
             IN  /\ p[1] = "" \/ IsDigits(p[1])
                 /\ p[2] = "" \/ IsDigits(p[2])
                 /\ p[1] # "" \/ p[2] # ""
        ELSE IsDigits(u)

\* num / 10^exp with the trailing zeros of the fraction dropped
RECURSIVE Normalize(_, _)
Normalize(n, e) ==
    IF e > 0 /\ n % 10 = 0 THEN Normalize(n \div 10, e - 1) ELSE <<n, e>>

FloatOf(s) ==
    LET u == Unsigned(strip(s))
        p == IF Contains(u, ".") THEN SplitFirst(u, ".") ELSE <<u, "">>
        m == DigitsVal(p[1]) * Pow10(Len(p[2])) + DigitsVal(p[2])
        ne == Normalize(m, Len(p[2]))
        neg == Negative(strip(s))
    IN  Real(IF neg THEN 0 - ne[1] ELSE ne[1], ne[2], neg /\ m = 0)

auto_cast(value) ==
    IF IsIntLiteral(value) THEN Integer(IntOf(value))
    ELSE IF IsFloatLiteral(value) THEN FloatOf(value)
    ELSE Text(strip(value))

\* str(n) of an int n >= 0
RECURSIVE NatToStr(_)
NatToStr(n) ==
    IF n < 10 THEN CharAt(Digits, n + 1)
    ELSE NatToStr(n \div 10) \o CharAt(Digits, (n % 10) + 1)

\* n >= 0 in exactly w decimal digits
RECURSIVE Padded(_, _)
Padded(n, w) ==
    IF w = 0 THEN "" ELSE Padded(n \div 10, w - 1) \o CharAt(Digits, (n % 10) + 1)

\* str(v), as the f-strings of serialize_frames render a value (a float in
\* fixed notation, which Python uses from 1e-4 up to 1e16)
str(v) ==
    LET a == IF v.num < 0 THEN 0 - v.num ELSE v.num
        sign == IF v.num < 0 \/ v.negzero THEN "-" ELSE ""
    IN  CASE v.t = "Text" -> v.text
          [] v.t = "Integer" -> sign \o NatToStr(a)
          [] v.t = "Real" ->
                sign \o NatToStr(a \div Pow10(v.exp)) \o "."
                     \o (IF v.exp = 0 THEN "0" ELSE Padded(a % Pow10(v.exp), v.exp))

\* a == b between two values: an int and a float are equal when they are the
\* same number, a str equals only the same str
PyEq(a, b) ==
    IF a.t = "Text" \/ b.t = "Text" THEN a = b
    ELSE a.num * Pow10(b.exp) = b.num * Pow10(a.exp)

\* bool(v): "", 0 and 0.0 are false
Truthy(v) == IF v.t = "Text" THEN v.text # "" ELSE v.num # 0

(***************************************************************************)
(* The program's functions                                                 *)
(***************************************************************************)

VALID_KEYS == {"Frame", "FrameLevel", "Anchor", "X", "Y", "W", "H"}
VALID_KEYS_LOWER == {lower(key) : key \in VALID_KEYS}

\* the number of lines of one frame's block
BlockSize == 7

\* {}
EmptyDict == [k \in {} |-> Text("")]

\* d[key] = value
SetItem(d, key, value) == (key :> value) @@ d

\* (None, None) when the line holds no ":", else the stripped key and the
\* auto-cast value around the first ":"
parse_kv_line(line) ==
    IF ~Contains(line, ":")
    THEN [none |-> TRUE, key |-> "", value |-> Text("")]
    ELSE LET kv == SplitFirst(line, ":")
         IN  [none |-> FALSE, key |-> strip(kv[1]), value |-> auto_cast(strip(kv[2]))]

\* RecordField keeping the first value of a repeated key instead of the last
RecordField_first(frame_data, kv) ==
    IF ~kv.none /\ kv.key # "" /\ kv.key \notin DOMAIN frame_data
    THEN SetItem(frame_data, kv.key, kv.value) ELSE frame_data

\* "if key: frame_data[key] = value": None and "" are both false
RecordField(frame_data, kv) ==
    IF ~kv.none /\ kv.key # "" THEN SetItem(frame_data, kv.key, kv.value) ELSE frame_data

\* frame_data after the lines at offsets 0 .. n-1 of the block at index
\* (index counts from 0, as in the code)
RECURSIVE FrameData(_, _, _)
FrameData(lines, index, n) ==
    IF n = 0 THEN EmptyDict
    ELSE RecordField(FrameData(lines, index, n - 1),
                     parse_kv_line(lines[index + (n - 1) + 1]))

\* MoreBlocks off by one: the last block needs a line after it
MoreBlocks_strict(index, len) == index + BlockSize < len

\* the guard of the block loop
MoreBlocks(index, len) == index + (BlockSize - 1) < len

\* the frames appended by the while loop from index on
RECURSIVE ReadBlocks(_, _)
ReadBlocks(lines, index) ==
    IF MoreBlocks(index, Len(lines))
    THEN <<FrameData(lines, index, BlockSize)>> \o ReadBlocks(lines, index + BlockSize)
    ELSE <<>>

\* [line.strip() for line in ls if line.strip()]
RECURSIVE StripNonBlank(_)
StripNonBlank(ls) ==
    IF ls = <<>> THEN <<>>
    ELSE (IF strip(ls[1]) # "" THEN <<strip(ls[1])>> ELSE <<>>) \o StripNonBlank(Tail(ls))

\* get_frames, of the text of the file at path
get_frames(text) ==
    LET lines == StripNonBlank(SplitLines(text))
    IN  IF lines = <<>> THEN [frames |-> <<>>, version_header |-> ""]
        ELSE [frames |-> ReadBlocks(lines, 1), version_header |-> lines[1]]

\* the lines one frame contributes to the output
FrameLines(frame) ==
    LET keys == sorted(DOMAIN frame \ {"Frame"})
    IN  <<"Frame: " \o (IF "Frame" \in DOMAIN frame THEN str(frame["Frame"]) ELSE "")>>
        \o [i \in 1..Len(keys) |-> keys[i] \o ": " \o str(frame[keys[i]])]

RECURSIVE OutputLines(_)
OutputLines(frames) ==
    IF frames = <<>> THEN <<>> ELSE FrameLines(frames[1]) \o OutputLines(Tail(frames))

serialize_frames(frames, version_header) ==
    Join(<<version_header>> \o OutputLines(frames), "\n")

\* KeyValid comparing the key as typed
KeyValid_cased(key) == key \in VALID_KEYS

\* key.lower() in VALID_KEYS_LOWER
KeyValid(key) == lower(key) \in VALID_KEYS_LOWER

\* next(vk for vk in VALID_KEYS if vk.lower() == key.lower())
proper_key(key) == CHOOSE vk \in VALID_KEYS : lower(vk) = lower(key)

\* the loop of parse_overrides over the pairs left, overrides being the dict
\* built so far; err names the exit taken ("none": the dict is returned)
RECURSIVE ParsePairs(_, _)
ParsePairs(pairs, overrides) ==
    IF pairs = <<>> THEN [err |-> "none", overrides |-> overrides]
    ELSE LET pair == pairs[1]
             kv == SplitFirst(pair, "=")
             key == strip(kv[1])
         IN  IF ~Contains(pair, "=")
             THEN [err |-> "invalid_argument", overrides |-> EmptyDict]
             ELSE IF ~KeyValid(key)
             THEN [err |-> "invalid_key", overrides |-> EmptyDict]
             ELSE ParsePairs(Tail(pairs),
                             SetItem(overrides, proper_key(key), auto_cast(strip(kv[2]))))

parse_overrides(pairs) == ParsePairs(pairs, EmptyDict)

\* MergeFrame as frame.update(overrides): the "Frame" value is overwritten too
MergeFrame_update(frame, overrides) ==
    [k \in DOMAIN frame \cup DOMAIN overrides |->
        IF k \in DOMAIN overrides THEN overrides[k] ELSE frame[k]]

\* MergeFrame adding an int override to the int the frame holds (+= for =)
MergeFrame_add(frame, overrides) ==
    [k \in DOMAIN frame \cup (DOMAIN overrides \ {"Frame"}) |->
        IF k \notin DOMAIN overrides \ {"Frame"} THEN frame[k]
        ELSE IF k \in DOMAIN frame /\ frame[k].t = "Integer" /\ overrides[k].t = "Integer"
        THEN Integer(frame[k].num + overrides[k].num)
        ELSE overrides[k]]

\* the inner loop of apply_overrides: frame[key] = value for every key but "Frame"
MergeFrame(frame, overrides) ==
    [k \in DOMAIN frame \cup (DOMAIN overrides \ {"Frame"}) |->
        IF k \in DOMAIN overrides \ {"Frame"} THEN overrides[k] ELSE frame[k]]

\* frame.get("Frame") == target_name (None equals no value)
NameMatches(frame, target_name) ==
    "Frame" \in DOMAIN frame /\ PyEq(frame["Frame"], target_name)

\* the loop over frames from the i-th on: the first match is merged and the
\* function returns; past the last frame the program exits
RECURSIVE ApplyFrom(_, _, _)
ApplyFrom(frames, overrides, i) ==
    IF i > Len(frames) THEN [err |-> "frame_not_found", frames |-> frames]
    ELSE IF NameMatches(frames[i], overrides["Frame"])
    THEN [err |-> "none",
          frames |-> [frames EXCEPT ![i] = MergeFrame(frames[i], overrides)]]
    ELSE ApplyFrom(frames, overrides, i + 1)

\* "not target_name": no "Frame" key (None) or a false value
NoTargetName(overrides) ==
    "Frame" \notin DOMAIN overrides \/ ~Truthy(overrides["Frame"])

apply_overrides(frames, overrides) ==
    IF NoTargetName(overrides) THEN [err |-> "missing_frame_name", frames |-> frames]
    ELSE ApplyFrom(frames, overrides, 1)

(***************************************************************************)
(* Inputs: the text of the file and the --set tokens                       *)
(***************************************************************************)

\* the most chunks of lines after the header in a file
MaxChunks == 2
\* the most tokens after --set
MaxTokens == 2

\* the first lines of a file: the version header, indented, and a blank line
HeaderLines == <<"  v1 ", "">>

\* a block of a frame named A with the seven usual fields
RecordA ==
    <<"Frame: A", "X: 1", "Y: 2", "W: 10", "H: 20", "Anchor: TL", "FrameLevel: 0">>

\* a block (seven non-blank lines) of a frame named 1: a repeated key, a line
\* without ":", a line with nothing before its ":", a blank line in between
RecordOne ==
    <<" Frame: 1", "X: 007", "", "X: 2", "no colon", ": 5", "Y: 1.50", "Anchor: T:L">>

\* a single line, which shifts the blocks after it or is left over at the end
StrayLine == <<"Z: 9">>

ChunkPool == {RecordA, RecordOne, StrayLine}

RECURSIVE Flatten(_)
Flatten(chunks) ==
    IF chunks = <<>> THEN <<>> ELSE chunks[1] \o Flatten(Tail(chunks))

FileText(ls) == Join(ls, "\n") \o "\n"

\* the files: one of blank lines only, and the header followed by chunks
Files ==
    {" \n"} \cup
    {FileText(HeaderLines \o Flatten(cs)) :
        cs \in UNION {[1..n -> ChunkPool] : n \in 0..MaxChunks}}

TokenPool ==
    {"Frame=A", "frame=1.0", "Frame=0", "Frame=", "h = 99", "W=1=2", "z=1", "junk"}

\* args.set: <<>> stands for None (no --set; nargs='+' gives no empty list)
ArgLists == UNION {[1..n -> TokenPool] : n \in 0..MaxTokens}

(***************************************************************************)
(* The state of one run of main                                            *)
(***************************************************************************)

VARIABLES
    file,            \* the text of the file at path
    set_args,        \* args.set
    pc,              \* where the run is
    frames,          \* main's frames
    version_header,  \* main's version_header
    overrides,       \* main's overrides
    err,             \* the sys.exit taken, "none" if none
    writes,          \* how often the file was opened for writing
    file0,           \* history: the text of the file when the run began
    before,          \* history: frames before the last call of apply_overrides
    reparsed         \* the result of parsing the serialized frames again

vars == <<file, set_args, pc, frames, version_header, overrides, err, writes,
          file0, before, reparsed>>

\* the run after argument parsing and the check of the path
Init ==
    /\ file \in Files
    /\ set_args \in ArgLists
    /\ pc = "start"
    /\ frames = <<>>
    /\ version_header = ""
    /\ overrides = EmptyDict
    /\ err = "none"
    /\ writes = 0
    /\ file0 = file
    /\ before = <<>>
    /\ reparsed = [frames |-> <<>>, version_header |-> ""]

\* what get_frames returns for each file, and parse_overrides for each list of
\* tokens (or the exit it takes), computed once
FileFrames == [f \in Files |-> get_frames(f)]
ArgOverrides == [a \in ArgLists |-> parse_overrides(a)]

\* frames, version_header = get_frames(file_path)
GetFrames ==
    /\ pc = "start"
    /\ \E r \in {FileFrames[file]} :
          /\ frames' = r.frames
          /\ version_header' = r.version_header
    /\ pc' = "parsed"
    /\ UNCHANGED <<file, set_args, overrides, err, writes, file0, before, reparsed>>

\* overrides = parse_overrides(args.set)
ParseOverrides ==
    /\ pc = "parsed"
    /\ set_args # <<>>
    /\ \E r \in {ArgOverrides[set_args]} :
          /\ overrides' = r.overrides
          /\ err' = r.err
          /\ pc' = IF r.err = "none" THEN "overrides" ELSE "exit"
    /\ UNCHANGED <<file, set_args, frames, version_header, writes, file0, before,
                   reparsed>>

\* ApplyOverrides with the sys.exit of apply_overrides missing: the error is
\* printed and main goes on
ApplyOverrides_noexit ==
    /\ pc = "overrides"
    /\ \E r \in {apply_overrides(frames, overrides)} :
          /\ frames' = r.frames
          /\ err' = r.err
    /\ pc' = "applied"
    /\ before' = frames
    /\ UNCHANGED <<file, set_args, version_header, overrides, writes, file0, reparsed>>

\* apply_overrides(frames, overrides)
ApplyOverrides ==
    /\ pc = "overrides"
    /\ \E r \in {apply_overrides(frames, overrides)} :
          /\ frames' = r.frames
          /\ err' = r.err
          /\ pc' = IF r.err = "none" THEN "applied" ELSE "exit"
    /\ before' = frames
    /\ UNCHANGED <<file, set_args, version_header, overrides, writes, file0, reparsed>>

\* output = serialize_frames(...); open(file_path, 'w'); f.write(output + '\n')
WriteFile ==
    /\ pc = "applied"
    /\ file' = serialize_frames(frames, version_header) \o "\n"
    /\ writes' = writes + 1
    /\ pc' = "done"
    /\ UNCHANGED <<set_args, frames, version_header, overrides, err, file0, before,
                   reparsed>>

\* print_frame_summary(frames): prints, changes nothing
Summary ==
    /\ pc = "parsed"
    /\ set_args = <<>>
    /\ pc' = "done"
    /\ UNCHANGED <<file, set_args, frames, version_header, overrides, err, writes,
                   file0, before, reparsed>>

Next == GetFrames \/ ParseOverrides \/ ApplyOverrides \/ WriteFile \/ Summary

Spec == Init /\ [][Next]_vars

(***************************************************************************)
(* The functions called by a caller other than main: apply_overrides a     *)
(* second time with the same overrides, and get_frames on what             *)
(* serialize_frames returns for the frames just parsed.                    *)
(***************************************************************************)

\* apply_overrides(frames, overrides), once more
ApplyAgain ==
    /\ pc = "applied"
    /\ \E r \in {apply_overrides(frames, overrides)} :
          /\ frames' = r.frames
          /\ err' = r.err
    /\ before' = frames
    /\ pc' = "applied_twice"
    /\ UNCHANGED <<file, set_args, version_header, overrides, writes, file0, reparsed>>

\* get_frames on the text serialize_frames returns, by a caller with no
\* overrides to apply
RoundTrip ==
    /\ pc = "parsed"
    /\ set_args = <<>>
    /\ reparsed' = get_frames(serialize_frames(frames, version_header))
    /\ pc' = "reparsed"
    /\ UNCHANGED <<file, set_args, frames, version_header, overrides, err, writes,
                   file0, before>>

NextCore == GetFrames \/ ParseOverrides \/ ApplyOverrides \/ ApplyAgain \/ RoundTrip

SpecCore == Init /\ [][NextCore]_vars

(***************************************************************************)
(* Properties                                                              *)
(***************************************************************************)

\* the non-blank lines, trimmed, of each input file
NonBlankLines == [f \in Files |-> StripNonBlank(SplitLines(f))]

\* the lines of the k-th block (k from 1) among the non-blank lines ls
Group(ls, k) == SubSeq(ls, 2 + 7 * (k - 1), 8 + 7 * (k - 1))

\* key and value of a line holding ":": the text around its first ":", trimmed,
\* the value coerced
KeyOf(line) == strip(SplitFirst(line, ":")[1])
ValueOf(line) == auto_cast(strip(SplitFirst(line, ":")[2]))

\* apply_overrides has been called once in this run of main
Applied ==
    \/ pc \in {"applied", "done"} /\ set_args # <<>>
    \/ pc = "exit" /\ err \in {"missing_frame_name", "frame_not_found"}

\* parse_overrides has been called and has returned the overrides
OverridesParsed == pc = "overrides" \/ Applied

\* parse_overrides has exited
OverridesRejected == pc = "exit" /\ err \in {"invalid_argument", "invalid_key"}

\* a token with "=" whose key is, but for case, on the allow-list
GoodToken(tok) ==
    /\ Contains(tok, "=")
    /\ \E k \in {"Frame", "FrameLevel", "Anchor", "X", "Y", "W", "H"} :
          lower(strip(SplitFirst(tok, "=")[1])) = lower(k)

\* the frames of d whose "Frame" value is v: the same variant, the same content
SameNamed(d, v) == {i \in 1..Len(d) : "Frame" \in DOMAIN d[i] /\ d[i]["Frame"] = v}

Min(S) == CHOOSE m \in S : \A n \in S : m <= n

\* C1: parsing what serialize_frames returns for frames that get_frames returned
\* yields the same header and the same frames, field by field
C1_RoundTrip ==
    pc = "reparsed" =>
        reparsed = [frames |-> frames, version_header |-> version_header]

\* C2: a successful apply_overrides changes one frame only: on the matched frame
\* every override key but "Frame" holds the override's value, every other key
\* (and "Frame") keeps its value; the other frames, their number and their order
\* are unchanged
C2_FrameEffect ==
    pc \in {"applied", "done"} /\ set_args # <<>> =>
        /\ Len(frames) = Len(before)
        /\ \E i \in 1..Len(frames) :
              /\ NameMatches(before[i], overrides["Frame"])
              /\ \A j \in 1..Len(frames) : j # i => frames[j] = before[j]
              /\ DOMAIN frames[i] = DOMAIN before[i] \cup (DOMAIN overrides \ {"Frame"})
              /\ \A k \in DOMAIN overrides \ {"Frame"} : frames[i][k] = overrides[k]
              /\ \A k \in DOMAIN before[i] \ DOMAIN overrides : frames[i][k] = before[i][k]
              /\ frames[i]["Frame"] = before[i]["Frame"]

\* C2 happens: of two frames one is changed
C2_Witness ==
    pc = "applied" /\ Len(frames) = 2 /\ frames # before

\* C3: apply_overrides with a "Frame" value (not the empty text) that no frame
\* carries exits with the frame-not-found error and leaves every frame as it was
C3_NotFound ==
    (/\ Applied
     /\ "Frame" \in DOMAIN overrides
     /\ overrides["Frame"] # Text("")
     /\ SameNamed(before, overrides["Frame"]) = {})
    => err = "frame_not_found" /\ frames = before

\* C4: parse_overrides returns a mapping exactly when every token is good; a bad
\* token anywhere leaves no mapping; the keys returned are the allow-list's
C4_AllOrNothing ==
    OverridesParsed \/ OverridesRejected =>
        /\ OverridesParsed <=> \A i \in 1..Len(set_args) : GoodToken(set_args[i])
        /\ OverridesRejected => overrides = EmptyDict
        /\ OverridesParsed =>
              /\ DOMAIN overrides \subseteq {"Frame", "FrameLevel", "Anchor", "X", "Y", "W", "H"}
              /\ \A i \in 1..Len(set_args) :
                    \E k \in DOMAIN overrides :
                        lower(k) = lower(strip(SplitFirst(set_args[i], "=")[1]))

\* C4 happens: a good token followed by a bad one, and nothing is returned
C4_Witness ==
    /\ OverridesRejected
    /\ Len(set_args) = 2
    /\ GoodToken(set_args[1])
    /\ overrides = EmptyDict

\* C5: of n non-blank lines the first is the header and floor((n-1)/7) frames
\* follow, frame k built from lines 2+7k .. 8+7k only; no lines, no frames and
\* an empty header
C5_Blocks ==
    pc = "parsed" =>
        LET ls == NonBlankLines[file]
            n == Len(ls)
        IN  /\ n = 0 => frames = <<>> /\ version_header = ""
            /\ n >= 1 =>
                  /\ version_header = ls[1]
                  /\ Len(frames) = (n - 1) \div 7
                  /\ \A k \in 1..Len(frames) :
                        frames[k] = FrameData(Group(ls, k), 0, 7)

\* C5 happens: one frame, and one line left over after its block
C5_Witness ==
    pc = "parsed" /\ Len(NonBlankLines[file]) = 9 /\ Len(frames) = 1

\* C6: the frame changed is the first whose "Frame" value is the override's,
\* variant and content; values of different variants never match; the
\* frame-not-found error is raised exactly when no frame matches
C6_FirstExactMatch ==
    Applied /\ err # "missing_frame_name" =>
        LET M == SameNamed(before, overrides["Frame"])
        IN  /\ err = "frame_not_found" <=> M = {}
            /\ \A j \in 1..Len(before) : (M = {} \/ j # Min(M)) => frames[j] = before[j]

\* C7: the missing-identity error is raised exactly when the overrides hold no
\* "Frame" key or hold the empty text for it
C7_MissingIdentity ==
    Applied =>
        (err = "missing_frame_name"
            <=> ("Frame" \notin DOMAIN overrides \/ overrides["Frame"] = Text("")))

\* C8: apply_overrides called again with the same overrides succeeds and leaves
\* the frames as the first call left them
C8_Idempotent ==
    pc = "applied_twice" => err = "none" /\ frames = before

\* C8 happens: the first call changed a frame, the second call was made
C8_Witness ==
    pc = "applied_twice" /\ frames # FileFrames[file].frames

\* the place, key and value of every line of the block g that holds ":"
ColonLines(g) ==
    {[line |-> i, key |-> KeyOf(g[i]), value |-> ValueOf(g[i])] :
        i \in {j \in 1..7 : Contains(g[j], ":")}}

\* the lines L are recorded in frame under their keys, the last line of a key
\* giving the value, and frame holds nothing else
RecordedIn(frame, L) ==
    /\ \A p \in L :
          /\ p.key \in DOMAIN frame
          /\ \E q \in L :
                /\ q.key = p.key
                /\ \A r \in L : r.key = p.key => r.line <= q.line
                /\ frame[p.key] = q.value
    /\ \A key \in DOMAIN frame : \E p \in L : p.key = key

\* C9 as stated: every line of a block that holds ":" is recorded under its key,
\* the last line of a key giving the value; lines without ":" give nothing
C9_EveryColonLine ==
    pc = "parsed" =>
        \A k \in 1..Len(frames) :
            RecordedIn(frames[k], ColonLines(Group(NonBlankLines[file], k)))

\* C9 amended: every line of a block that holds ":" after a non-empty key is
\* recorded under its key, the last line of a key giving the value; lines
\* without ":" or with nothing before it give nothing
C9_NonEmptyKeyLines ==
    pc = "parsed" =>
        \A k \in 1..Len(frames) :
            RecordedIn(frames[k],
                       {p \in ColonLines(Group(NonBlankLines[file], k)) : p.key # ""})

\* C9 happens: a block with a repeated key, a line without ":" and a line with
\* nothing before its ":"
C9_Witness ==
    /\ pc = "parsed"
    /\ \E k \in 1..Len(frames) :
          LET g == Group(NonBlankLines[file], k)
          IN  /\ \E i, j \in 1..7 :
                    i < j /\ Contains(g[i], ":") /\ Contains(g[j], ":")
                          /\ KeyOf(g[i]) = KeyOf(g[j]) /\ ValueOf(g[i]) # ValueOf(g[j])
              /\ \E i \in 1..7 : ~Contains(g[i], ":")
              /\ \E i \in 1..7 : Contains(g[i], ":") /\ KeyOf(g[i]) = ""

\* C10: the file is written at most once, and only at the end of a run with
\* overrides in which parse_overrides and then apply_overrides succeeded; a run
\* that exits leaves the file as it was read and the frames as parsed; no frame
\* is changed before apply_overrides; a run without --set never writes
C10_WriteLast ==
    /\ writes <= 1
    /\ file # file0 => writes = 1
    /\ writes = 1 =>
          /\ pc = "done" /\ set_args # <<>> /\ err = "none"
          /\ \A i \in 1..Len(set_args) : GoodToken(set_args[i])
          /\ overrides = parse_overrides(set_args).overrides
          /\ frames = apply_overrides(before, overrides).frames
          /\ before = FileFrames[file0].frames
    /\ pc = "exit" => writes = 0 /\ frames = FileFrames[file0].frames
    /\ pc \in {"parsed", "overrides"} => frames = FileFrames[file0].frames
    /\ set_args = <<>> => writes = 0

\* C10 happens: an edit run ends having written a file that differs from the
\* one read
C10_Witness ==
    pc = "done" /\ writes = 1 /\ file # file0

=============================================================================
